---- MODULE Spec2Model ----
(***************************************************************************)
(* Offline-first synchronization engine of fastest-note-app.               *)
(*                                                                         *)
(* The model follows frontend/src/services/syncQueue.ts (SyncQueueService),*)
(* the operations table of frontend/src/services/offline.ts and the notes  *)
(* map of the content store.  Every asynchronous handler is cut at the     *)
(* awaits where another handler can observe or change shared state.        *)
(* The Remote Service is not part of the repository's sources: it is       *)
(* modelled from its interface contract (versioned records, 409 on a       *)
(* version mismatch).                                                      *)
(***************************************************************************)
EXTENDS Integers, Sequences, FiniteSets, Bags, TLC

\* ------------------------------------------------------------------ bounds
\* environment events in one behaviour: operations enqueued, network errors,
\* connectivity losses, writes by another actor and manual retries
MaxEvents == 3

\* push notifications handled in one behaviour
MaxDeliveries == 2

\* the concurrency bound the service runs with (options.maxConcurrentSync,
\* default 3): small enough for MaxEvents operations to meet it
maxConcurrentSync == 2

\* reconnection timeouts of the push channel pending at one time
MaxTimers == 2

\* nested calls of the api client's request in one request of the application
MaxDepth == 4

\* ------------------------------------------------- program constants
maxRetries == 3           \* options.maxRetries || 3
maxReconnectAttempts == 5 \* options.reconnectAttempts || 5

\* ------------------------------------------------------------ value sets
OpIds == 1..MaxEvents
TmpIds == [o \in OpIds |-> <<"tmp", o>>]
ServerIds == [k \in 1..(MaxEvents * (maxRetries + 2)) |-> <<"srv", k>>]
InitialIds == {<<"note", 1>>}
RootFolder == <<"folder", 0>>
InitialTitle == <<"title", 0>>
EditTitle == [o \in OpIds |-> <<"title", o>>]
MoveFolder == [o \in OpIds |-> <<"folder", o>>]
ForeignTitle == <<"foreign", 0>>
ForeignFolder == <<"folder", MaxEvents + 2>>
LocalUser == "local"
OtherUser == "other"
InvalidTitle == <<"invalid", 0>>
\* notes at the root belong to no folder: RootFolder is not a stored folder
InitialFolders == {<<"folder", MaxEvents + 1>>}

Undefined == <<"undefined", 0>>
NoData == [title |-> Undefined, folder |-> Undefined, version |-> 0]
NoBody == [id |-> <<"none", 0>>, title |-> Undefined, folder |-> Undefined, version |-> 0]
NoResponse == [status |-> 0, body |-> NoBody]

VARIABLES
    isOnline,          \* SyncQueueService.isOnline
    isSyncing,         \* SyncQueueService.isSyncing
    activeSyncCount,   \* SyncQueueService.activeSyncCount
    drain,             \* the running processPendingOperations: its position and pendingOps
    retryTimers,       \* operations whose retry timer (setTimeout of processOperation) is armed
    operations,        \* offlineStorage 'operations' object store, keyed by operation id
    opCount,           \* operations created so far (ids and timestamps increase together)
    calls,             \* bag of processOperation invocations that have not returned
    notes,             \* useContentStore state.notes (the projection)
    optimisticOps,     \* useContentStore state.optimisticOps, keyed by optimistic operation id
    mutations,         \* optimistic mutations of the store awaiting their api call
    immediate,         \* a setImmediate of queueOperation has not run yet
    offlineNotes,      \* offlineStorage 'notes' object store, keyed by note id
    fullSync,          \* the running fullSync: its position and the lists it fetched
    refreshes,         \* syncNotes / syncFolders calls of the store that have not returned
    folders,           \* useContentStore state.folders (ids only)
    remote,            \* Remote Service: stored notes by id
    remoteFolders,     \* Remote Service: stored folders (ids only)
    channel,           \* Push Channel: notifications published for other actors' writes
    remoteSeq,         \* Remote Service: ids handed out so far
    attempts,          \* history: dispatches of each operation since creation / manual retry
    emitted,           \* history: 'conflict' events emitted for each operation
    reached,           \* history: operations whose request the Remote Service has handled
    waited,            \* history: operations a drain left undispatched at the concurrency bound
    lastMessage,       \* history: the push notification handled last, and how many were
    events,            \* history: environment events so far
    reemitted,         \* history: the last resolvePendingConflicts: the operations then failed
                       \* by a conflict, and those it emitted 'conflict' for
    ws,                \* WebSocketService: readyState of this.ws, "none" for null
    isConnected,       \* WebSocketService.isConnected
    isConnecting,      \* WebSocketService.isConnecting
    shouldReconnect,   \* WebSocketService.shouldReconnect
    reconnectAttempts, \* WebSocketService.reconnectAttempts
    reconnectTimers,   \* reconnection timeouts set by onclose that have not fired
    accessToken,       \* useAuthStore: an access token is present
    stack,             \* ApiClient: the nested calls of request that have not returned
    returned,          \* ApiClient: what the call that returned last hands to its caller
    refreshToken,      \* ApiClient: this.refreshToken is set
    tokenRefreshes,    \* history: calls of refreshAccessToken in the running request
    outcome            \* history: how the last request of the application that ended did

queueVars == <<isOnline, isSyncing, activeSyncCount, drain, retryTimers>>
storeVars == <<operations, opCount, calls, notes>>
remoteVars == <<remote, remoteSeq>>
uiVars == <<optimisticOps, mutations>>
histVars == <<attempts, emitted, reached, waited, events>>
resyncVars == <<fullSync, refreshes, folders, remoteFolders, lastMessage, channel>>
socketVars == <<ws, isConnected, isConnecting, shouldReconnect, reconnectAttempts,
                reconnectTimers, accessToken>>
requestVars == <<stack, returned, refreshToken, tokenRefreshes, outcome>>
lateVars == <<reemitted, socketVars, requestVars>>
vars == <<queueVars, storeVars, remoteVars, uiVars, histVars, immediate, offlineNotes, resyncVars,
          lateVars>>

\* ---------------------------------------------------------- content store
addNote(ns, id, rec) ==
    [x \in DOMAIN ns \cup {id} |-> IF x = id THEN rec ELSE ns[x]]

\* Object.assign(state.notes[id], updates): only when the note is present;
\* undefined fields of a partial update are left alone
updateNote(ns, id, upd) ==
    IF id \in DOMAIN ns
    THEN [ns EXCEPT ![id] =
            [title |-> IF upd.title = Undefined THEN @.title ELSE upd.title,
             folder |-> IF upd.folder = Undefined THEN @.folder ELSE upd.folder,
             version |-> IF upd.version = 0 THEN @.version ELSE upd.version]]
    ELSE ns

removeNote(ns, id) == [x \in DOMAIN ns \ {id} |-> ns[x]]

StripId(body) == [title |-> body.title, folder |-> body.folder, version |-> body.version]

\* setNotes: state.notes is emptied, then every listed note is inserted
setNotes(ns, list) == list

\* setFolders, likewise
setFolders(fs, list) == list

\* ------------------------------------------------------- offline notes
\* offlineStorage.saveNote: store.put under the note's id
saveNote(ons, id, rec) ==
    [x \in DOMAIN ons \cup {id} |-> IF x = id THEN rec ELSE ons[x]]

\* offlineStorage.deleteNote
deleteNote(ons, id) == [x \in DOMAIN ons \ {id} |-> ons[x]]

\* offlineStorage.saveNotes: one store.put for every note of the list; notes
\* the list does not name stay as they are
saveNotes(ons, list) ==
    [x \in DOMAIN ons \cup DOMAIN list |-> IF x \in DOMAIN list THEN list[x] ELSE ons[x]]

\* --------------------------------------------------- offline operations
\* offlineStorage.updateOperation: { ...operation, ...updates }, rejected
\* ('Operation not found') when the operation is no longer stored
updateOperation(ops, id, updates) ==
    IF id \in DOMAIN ops
    THEN [ops EXCEPT ![id] =
            [f \in DOMAIN @ |-> IF f \in DOMAIN updates THEN updates[f] ELSE @[f]]]
    ELSE ops

RECURSIVE updateOperations(_, _, _)
updateOperations(ops, ids, updates) ==
    IF ids = {} THEN ops
    ELSE LET id == CHOOSE x \in ids : TRUE
         IN updateOperations(updateOperation(ops, id, updates), ids \ {id}, updates)

\* offlineStorage.getOperations(status): the stored operations with that
\* status, as the objects the caller keeps working with
getOperations(ops, status) ==
    {[id |-> o, type |-> ops[o].type, entityId |-> ops[o].entityId,
      data |-> ops[o].data, retryCount |-> ops[o].retryCount]
        : o \in {x \in DOMAIN ops : ops[x].status = status}}

saveOperation(ops, id, op) ==
    [x \in DOMAIN ops \cup {id} |-> IF x = id THEN op ELSE ops[x]]

\* ------------------------------------------------------ Remote Service
RemoteRec(title, folder, version, by) ==
    [title |-> title, folder |-> folder, version |-> version, by |-> by]

Body(id, rec) ==
    [id |-> id, title |-> rec.title, folder |-> rec.folder, version |-> rec.version]

NotFound == [status |-> 404, body |-> NoBody]
Invalid == [status |-> 400, body |-> NoBody]

\* create(type, payload): a new record under a fresh id, version 1.  The
\* request carries no idempotency key, so nothing identifies a repeated create.
RemoteCreate(r, seq, data, by) ==
    LET id == ServerIds[seq + 1]
        rec == RemoteRec(data.title, data.folder, 1, by)
    IN [remote |-> [x \in DOMAIN r \cup {id} |-> IF x = id THEN rec ELSE r[x]],
        seq |-> seq + 1,
        resp |-> [status |-> 200, body |-> Body(id, rec)]]

\* update(type, id, payload, expectedVersion): accepted only when the
\* payload is valid and the submitted version is the stored one; the version
\* is then incremented
RemoteUpdate(r, seq, id, data) ==
    IF data.title = InvalidTitle THEN [remote |-> r, seq |-> seq, resp |-> Invalid]
    ELSE IF id \notin DOMAIN r THEN [remote |-> r, seq |-> seq, resp |-> NotFound]
    ELSE IF data.version # r[id].version
    THEN [remote |-> r, seq |-> seq, resp |-> [status |-> 409, body |-> Body(id, r[id])]]
    ELSE LET rec == RemoteRec(IF data.title = Undefined THEN r[id].title ELSE data.title,
                              IF data.folder = Undefined THEN r[id].folder ELSE data.folder,
                              r[id].version + 1, r[id].by)
         IN [remote |-> [r EXCEPT ![id] = rec], seq |-> seq,
             resp |-> [status |-> 200, body |-> Body(id, rec)]]

RemoteDelete(r, seq, id) ==
    IF id \notin DOMAIN r THEN [remote |-> r, seq |-> seq, resp |-> NotFound]
    ELSE [remote |-> [x \in DOMAIN r \ {id} |-> r[x]], seq |-> seq,
          resp |-> [status |-> 200, body |-> NoBody]]

RemoteMove(r, seq, id, data) ==
    IF id \notin DOMAIN r THEN [remote |-> r, seq |-> seq, resp |-> NotFound]
    ELSE LET rec == RemoteRec(r[id].title, data.folder, r[id].version + 1, r[id].by)
         IN [remote |-> [r EXCEPT ![id] = rec], seq |-> seq,
             resp |-> [status |-> 200, body |-> Body(id, rec)]]

\* ------------------------------------------------------- SyncQueueService
\* executeNoteOperation: what each operation type asks of the Remote Service
RemoteCall(r, seq, c) ==
    CASE c.type = "create" -> RemoteCreate(r, seq, c.data, c.id)
      [] c.type = "update" -> RemoteUpdate(r, seq, c.entityId, c.data)
      [] c.type = "delete" -> RemoteDelete(r, seq, c.entityId)
      [] c.type = "move"   -> RemoteMove(r, seq, c.entityId, c.data)

\* a variant of the store update that adds the created note without removing
\* the provisional one
ApplyResultKeepsTmp(ns, c) ==
    CASE c.type = "create" -> addNote(ns, c.resp.body.id, StripId(c.resp.body))
      [] c.type = "update" -> updateNote(ns, c.entityId, StripId(c.resp.body))
      [] c.type = "delete" -> removeNote(ns, c.entityId)
      [] c.type = "move"   -> updateNote(ns, c.entityId, StripId(c.resp.body))

\* executeNoteOperation after the awaited call has resolved: the store update
ApplyResult(ns, c) ==
    CASE c.type = "create" -> addNote(removeNote(ns, c.entityId), c.resp.body.id, StripId(c.resp.body))
      [] c.type = "update" -> updateNote(ns, c.entityId, StripId(c.resp.body))
      [] c.type = "delete" -> removeNote(ns, c.entityId)
      [] c.type = "move"   -> updateNote(ns, c.entityId, StripId(c.resp.body))

\* executeNoteOperation after the store update: the offline notes store
SaveResult(ons, c) ==
    CASE c.type = "create" -> saveNote(deleteNote(ons, c.entityId), c.resp.body.id, StripId(c.resp.body))
      [] c.type = "update" -> saveNote(ons, c.resp.body.id, StripId(c.resp.body))
      [] c.type = "delete" -> deleteNote(ons, c.entityId)
      [] c.type = "move"   -> saveNote(ons, c.resp.body.id, StripId(c.resp.body))

\* [...pendingOps, ...failedOps].sort((a, b) => a.timestamp - b.timestamp):
\* timestamps grow with the operation id; the sort is stable, so an operation
\* read in both lists keeps its pending entry first
RECURSIVE SortByTimestamp(_, _, _)
SortByTimestamp(pendingOps, failedOps, i) ==
    IF i > MaxEvents THEN <<>>
    ELSE LET p == {e \in pendingOps : e.id = i}
             f == {e \in failedOps : e.id = i}
         IN (IF p = {} THEN <<>> ELSE <<CHOOSE e \in p : TRUE>>)
            \o (IF f = {} THEN <<>> ELSE <<CHOOSE e \in f : TRUE>>)
            \o SortByTimestamp(pendingOps, failedOps, i + 1)

\* a variant of the for-loop without the activeSyncCount check
RECURSIVE DispatchLoopNoBound(_, _, _)
DispatchLoopNoBound(allOps, i, active) ==
    IF i > Len(allOps) THEN <<>>
    ELSE IF allOps[i].retryCount >= maxRetries THEN DispatchLoopNoBound(allOps, i + 1, active)
    ELSE <<allOps[i]>> \o DispatchLoopNoBound(allOps, i + 1, active + 1)

\* the for-loop of processPendingOperations: the operations processOperation
\* is invoked for, given activeSyncCount on entry
RECURSIVE DispatchLoop(_, _, _)
DispatchLoop(allOps, i, active) ==
    IF i > Len(allOps) THEN <<>>
    ELSE IF active >= maxConcurrentSync THEN <<>>
    ELSE IF allOps[i].retryCount >= maxRetries THEN DispatchLoop(allOps, i + 1, active)
    ELSE <<allOps[i]>> \o DispatchLoop(allOps, i + 1, active + 1)

Range(s) == {s[i] : i \in DOMAIN s}

NewCall(e) ==
    [id |-> e.id, type |-> e.type, entityId |-> e.entityId, data |-> e.data,
     retryCount |-> e.retryCount, phase |-> "sent", resp |-> NoResponse]

\* processPendingOperations up to its first await: the guard, isSyncing and
\* the read of the pending operations
StartDrain(ops) ==
    /\ isSyncing' = TRUE
    /\ drain' = [pc |-> "readFailed", pendingOps |-> getOperations(ops, "pending")]

Idle == [pc |-> "idle", pendingOps |-> {}]

NoFullSync == [pc |-> "idle", remoteNotes |-> << >>, remoteFolders |-> {}]
NoMessage == [entity |-> "none", operation |-> "none", id |-> <<"none", 0>>,
              version |-> 0, user_id |-> "none"]

\* a variant of the finally block that leaves isSyncing set
DrainFinallyStuck ==
    /\ isSyncing' = TRUE
    /\ drain' = Idle

\* the finally block of processPendingOperations
DrainFinally ==
    /\ isSyncing' = FALSE
    /\ drain' = Idle

TypeOK ==
    /\ isOnline \in BOOLEAN /\ isSyncing \in BOOLEAN
    /\ activeSyncCount \in Nat
    /\ drain.pc \in {"idle", "readFailed"}
    /\ DOMAIN operations \subseteq OpIds
    /\ opCount \in 0..MaxEvents
    /\ IsABag(calls)
    /\ retryTimers \subseteq OpIds
    /\ DOMAIN optimisticOps \subseteq OpIds
    /\ immediate \in BOOLEAN
    /\ fullSync.pc \in {"idle", "listing", "listed", "saved", "hung", "draining", "clearing"}
    /\ folders \subseteq InitialFolders /\ remoteFolders \subseteq InitialFolders
    /\ lastMessage.count \in 0..MaxDeliveries

InitBase ==
    /\ isOnline \in BOOLEAN
    /\ isSyncing = FALSE
    /\ activeSyncCount = 0
    /\ drain = Idle
    /\ retryTimers = {}
    /\ optimisticOps = << >>
    /\ mutations = {}
    /\ operations = << >>
    /\ opCount = 0
    /\ calls = EmptyBag
    /\ notes = [x \in InitialIds |-> [title |-> InitialTitle, folder |-> RootFolder, version |-> 1]]
    /\ remote = [x \in InitialIds |-> RemoteRec(InitialTitle, RootFolder, 1, 0)]
    /\ remoteSeq = 0
    /\ immediate = FALSE
    /\ offlineNotes = [x \in InitialIds |-> [title |-> InitialTitle, folder |-> RootFolder, version |-> 1]]
    /\ fullSync = NoFullSync
    /\ refreshes = {}
    /\ folders = InitialFolders
    /\ remoteFolders = InitialFolders
    /\ channel = {}
    /\ lastMessage = [message |-> NoMessage, count |-> 0]
    /\ attempts = [o \in OpIds |-> 0]
    /\ emitted = [o \in OpIds |-> 0]
    /\ reached = {}
    /\ waited = {}
    /\ events = 0
    /\ reemitted = [conflicts |-> {}, ops |-> {}]
    /\ ws = "none"
    /\ isConnected = FALSE
    /\ isConnecting = FALSE
    /\ shouldReconnect = TRUE
    /\ reconnectAttempts = 0
    /\ reconnectTimers = 0
    /\ stack = << >>
    /\ returned = "none"
    /\ tokenRefreshes = 0
    /\ outcome = "none"

\* a browser that holds no tokens of an earlier session
Init == InitBase /\ accessToken = FALSE /\ refreshToken = FALSE

\* queueOperation: the operation is stored pending with retryCount 0, and a
\* call of processPendingOperations is scheduled with setImmediate when the
\* client is online and below the concurrency bound
queueOperation(type, entityId, data) ==
    /\ events < MaxEvents
    /\ immediate' = (immediate \/ (isOnline /\ activeSyncCount < maxConcurrentSync))
    /\ events' = events + 1
    /\ opCount' = opCount + 1
    /\ operations' = saveOperation(operations, opCount + 1,
            [type |-> type, entityId |-> entityId, data |-> data,
             status |-> "pending", retryCount |-> 0, lastError |-> Undefined])

\* a client of the queue that follows the optimistic protocol: the change is
\* applied to the projection, then the operation is queued (the content
\* store's own optimistic mutations, further down, call the api themselves)
CreateOptimistic ==
    /\ queueOperation("create", TmpIds[opCount + 1],
                      [title |-> EditTitle[opCount + 1], folder |-> RootFolder, version |-> 0])
    /\ notes' = addNote(notes, TmpIds[opCount + 1],
                        [title |-> EditTitle[opCount + 1], folder |-> RootFolder, version |-> 1])
    /\ UNCHANGED <<offlineNotes, resyncVars, lateVars>>
    /\ UNCHANGED <<queueVars, calls, remoteVars, uiVars, attempts, emitted, reached, waited>>

UpdateOptimistic ==
    \E id \in DOMAIN notes :
        LET data == [title |-> EditTitle[opCount + 1], folder |-> Undefined, version |-> notes[id].version]
        IN /\ queueOperation("update", id, data)
           /\ notes' = updateNote(notes, id, data)
           /\ UNCHANGED <<offlineNotes, resyncVars, lateVars>>
           /\ UNCHANGED <<queueVars, calls, remoteVars, uiVars, attempts, emitted, reached, waited>>

DeleteOptimistic ==
    \E id \in DOMAIN notes :
        /\ queueOperation("delete", id, NoData)
        /\ notes' = removeNote(notes, id)
        /\ UNCHANGED <<offlineNotes, resyncVars, lateVars>>
        /\ UNCHANGED <<queueVars, calls, remoteVars, uiVars, attempts, emitted, reached, waited>>

MoveOptimistic ==
    \E id \in DOMAIN notes :
        LET data == [title |-> Undefined, folder |-> MoveFolder[opCount + 1], version |-> 0]
        IN /\ queueOperation("move", id, data)
           /\ notes' = updateNote(notes, id, data)
           /\ UNCHANGED <<offlineNotes, resyncVars, lateVars>>
           /\ UNCHANGED <<queueVars, calls, remoteVars, uiVars, attempts, emitted, reached, waited>>

\* window 'online' listener
GoOnline ==
    /\ ~isOnline
    /\ isOnline' = TRUE
    /\ IF ~isSyncing THEN StartDrain(operations) ELSE UNCHANGED <<isSyncing, drain>>
    /\ UNCHANGED <<immediate, offlineNotes, resyncVars, lateVars>>
    /\ UNCHANGED <<activeSyncCount, retryTimers, storeVars, remoteVars, uiVars, histVars>>

\* window 'offline' listener
GoOffline ==
    /\ isOnline
    /\ events < MaxEvents
    /\ events' = events + 1
    /\ isOnline' = FALSE
    /\ UNCHANGED <<immediate, offlineNotes, resyncVars, lateVars>>
    /\ UNCHANGED <<isSyncing, activeSyncCount, drain, retryTimers, storeVars, remoteVars, uiVars,
                   attempts, emitted,
                   reached, waited>>

\* processPendingOperations called by the periodic timer or visibilitychange
\* (and standing for the retry timers and the setImmediate of queueOperation
\* where their own actions are not part of the specification)
DrainTrigger ==
    /\ isOnline /\ ~isSyncing
    /\ StartDrain(operations)
    /\ UNCHANGED <<immediate, offlineNotes, resyncVars, lateVars>>
    /\ UNCHANGED <<isOnline, activeSyncCount, retryTimers, storeVars, remoteVars, uiVars, histVars>>

\* processPendingOperations from the read of the failed operations to its
\* finally block; processOperation marks each dispatched operation 'syncing'
DrainLoop ==
    /\ drain.pc = "readFailed"
    /\ LET allOps == SortByTimestamp(drain.pendingOps, getOperations(operations, "failed"), 1)
           invoked == Range(DispatchLoop(allOps, 1, activeSyncCount))
           started == {e \in invoked : e.id \in DOMAIN operations}
       IN /\ operations' = updateOperations(operations, {e.id : e \in started},
                                [status |-> "syncing", lastError |-> Undefined])
          /\ calls' = calls (+) SetToBag({NewCall(e) : e \in started})
          /\ activeSyncCount' = activeSyncCount + Cardinality(started)
          /\ attempts' = [o \in OpIds |->
                            IF (\E e \in started : e.id = o) /\ attempts[o] <= maxRetries
                            THEN attempts[o] + 1 ELSE attempts[o]]
          /\ waited' = waited \cup {e.id : e \in {x \in Range(allOps) \ invoked :
                                                    x.retryCount < maxRetries}}
    /\ DrainFinally
    /\ UNCHANGED <<immediate, offlineNotes, resyncVars, lateVars>>
    /\ UNCHANGED <<isOnline, retryTimers, opCount, notes, remoteVars, uiVars, emitted, reached, events>>

\* the Remote Service handles the request of an outstanding call
RemoteHandle ==
    \E c \in BagToSet(calls) :
        /\ c.phase = "sent"
        /\ remoteSeq < Len(ServerIds)
        /\ LET out == RemoteCall(remote, remoteSeq, c)
           IN /\ remote' = out.remote
              /\ remoteSeq' = out.seq
              /\ calls' = (calls (-) SetToBag({c}))
                            (+) SetToBag({[c EXCEPT !.phase = "responded", !.resp = out.resp]})
        /\ reached' = reached \cup {c.id}
        /\ UNCHANGED <<immediate, offlineNotes, resyncVars, lateVars>>
        /\ UNCHANGED <<queueVars, operations, opCount, notes, uiVars, attempts, emitted, waited, events>>

\* another actor writes a note on the Remote Service
ForeignWrite ==
    \E id \in DOMAIN remote :
        /\ events < MaxEvents
        /\ events' = events + 1
        /\ remote' = [remote EXCEPT ![id] = RemoteRec(ForeignTitle, @.folder, @.version + 1, @.by)]
        /\ UNCHANGED <<immediate, offlineNotes, resyncVars, lateVars>>
        /\ UNCHANGED <<queueVars, storeVars, remoteSeq, uiVars, attempts, emitted, reached, waited>>

\* processOperation's catch block: the retry timer is armed once the update
\* of a still stored operation to 'pending' has been written
Failed(c, message) ==
    LET newRetryCount == c.retryCount + 1
        status == IF newRetryCount >= maxRetries THEN "failed" ELSE "pending"
    IN /\ operations' = updateOperation(operations, c.id,
                [status |-> status, retryCount |-> newRetryCount, lastError |-> message])
       /\ retryTimers' = IF status = "pending" /\ c.id \in DOMAIN operations
                         THEN retryTimers \cup {c.id} ELSE retryTimers
       /\ calls' = calls (-) SetToBag({c})
       /\ activeSyncCount' = activeSyncCount - 1

\* processOperation after a successful executeOperation
ReceiveOk ==
    \E c \in BagToSet(calls) :
        /\ c.phase = "responded" /\ c.resp.status = 200
        /\ notes' = ApplyResult(notes, c)
        /\ offlineNotes' = SaveResult(offlineNotes, c)
        /\ operations' = updateOperation(operations, c.id, [status |-> "synced"])
        /\ calls' = calls (-) SetToBag({c})
        /\ activeSyncCount' = activeSyncCount - 1
        /\ UNCHANGED <<immediate, resyncVars, lateVars>>
        /\ UNCHANGED <<isOnline, isSyncing, drain, retryTimers, opCount, remoteVars, uiVars, histVars>>

\* executeOperation's catch for status 409: handleConflict emits 'conflict'
\* and returns { success: false, error: 'Conflict detected' }
ReceiveConflict ==
    \E c \in BagToSet(calls) :
        /\ c.phase = "responded" /\ c.resp.status = 409
        /\ emitted' = [emitted EXCEPT ![c.id] = IF @ < 2 THEN @ + 1 ELSE @]
        /\ Failed(c, "Conflict detected")
        /\ UNCHANGED <<immediate, offlineNotes, resyncVars, lateVars>>
        /\ UNCHANGED <<isOnline, isSyncing, drain, opCount, notes, remoteVars, uiVars,
                       attempts, reached, waited, events>>

\* any other error response is rethrown by executeOperation
ReceiveError ==
    \E c \in BagToSet(calls) :
        /\ c.phase = "responded" /\ c.resp.status \in {400, 404}
        /\ Failed(c, IF c.resp.status = 400 THEN "Validation failed" ELSE "Not found")
        /\ UNCHANGED <<immediate, offlineNotes, resyncVars, lateVars>>
        /\ UNCHANGED <<isOnline, isSyncing, drain, opCount, notes, remoteVars, uiVars, histVars>>

\* the request or its response is lost, or the call times out
NetworkError ==
    \E c \in BagToSet(calls) :
        /\ events < MaxEvents
        /\ events' = events + 1
        /\ Failed(c, "Network error")
        /\ UNCHANGED <<immediate, offlineNotes, resyncVars, lateVars>>
        /\ UNCHANGED <<isOnline, isSyncing, drain, opCount, notes, remoteVars, uiVars, attempts, emitted,
                       reached, waited>>

\* retryOperation(operationId): status, retryCount and lastError are reset;
\* the operation's data is not touched
retryOperation(o) ==
    /\ events < MaxEvents
    /\ events' = events + 1
    /\ operations' = updateOperation(operations, o,
            [status |-> "pending", retryCount |-> 0, lastError |-> Undefined])
    /\ attempts' = [attempts EXCEPT ![o] = 0]
    /\ IF isOnline /\ ~isSyncing THEN StartDrain(operations')
                                 ELSE UNCHANGED <<isSyncing, drain>>
    /\ UNCHANGED <<immediate, offlineNotes, resyncVars, lateVars>>
    /\ UNCHANGED <<isOnline, activeSyncCount, retryTimers, opCount, calls, notes, remoteVars,
                   uiVars, emitted, reached, waited>>

\* a manual retry of any stored operation
RetryOperation == \E o \in DOMAIN operations : retryOperation(o)

Next ==
    \/ CreateOptimistic
    \/ UpdateOptimistic
    \/ DeleteOptimistic
    \/ MoveOptimistic
    \/ GoOnline
    \/ GoOffline
    \/ DrainTrigger
    \/ DrainLoop
    \/ RemoteHandle
    \/ ForeignWrite
    \/ ReceiveOk
    \/ ReceiveConflict
    \/ ReceiveError
    \/ NetworkError
    \/ RetryOperation

Spec == Init /\ [][Next]_vars

\* ------------------------------------------------------------- properties
InFlight == BagToSet(calls)

\* processOperation invocations outstanding for operation o
CallsOf(b, o) ==
    LET cs == {c \in BagToSet(b) : c.id = o}
        RECURSIVE Sum(_)
        Sum(S) == IF S = {} THEN 0
                  ELSE LET c == CHOOSE x \in S : TRUE IN CopiesIn(c, b) + Sum(S \ {c})
    IN Sum(cs)

\* operation o is dispatched in this step
Dispatched(o) == CallsOf(calls', o) > CallsOf(calls, o)

\* C1: no two operations that target the same entity id are in flight at
\* the same time
C1_OneInFlightPerEntity ==
    \A c1, c2 \in InFlight : c1.id # c2.id => c1.entityId # c2.entityId

\* C2: operations on the same entity reach the Remote Service in creation
\* order: when a later operation has been handled, every earlier operation on
\* that entity still in the log has been handled before it
C2_PerEntityCreationOrder ==
    \A a, b \in DOMAIN operations :
        (a < b /\ operations[a].entityId = operations[b].entityId /\ b \in reached)
            => a \in reached

\* C3: the number of operations with a Remote Service call in flight never
\* exceeds the concurrency bound
C3_InFlightWithinBound == BagCardinality(calls) <= maxConcurrentSync

\* C3 witness: the bound is reached while a drain that read an eligible
\* pending operation is about to run its loop
C3_BoundReached ==
    /\ BagCardinality(calls) = maxConcurrentSync
    /\ drain.pc = "readFailed"
    /\ \E e \in drain.pendingOps : e.retryCount < maxRetries

\* C4: an operation whose last outcome is a version conflict is not dispatched
\* again by a drain (a manual retry clears the recorded conflict)
C4_ConflictedNotRedispatched ==
    [][\A o \in DOMAIN operations :
          operations[o].lastError = "Conflict detected" => ~Dispatched(o)]_vars

\* C5: over its whole lifetime an operation has at most one conflict emitted
C5_OneConflictPerOperation == \A o \in OpIds : emitted[o] <= 1

\* C6: the Remote Service holds at most one record for every create operation
C6_OneRecordPerCreate ==
    \A o \in OpIds : Cardinality({id \in DOMAIN remote : remote[id].by = o}) <= 1

\* a create call whose success is received in this step
Confirmed(c) ==
    /\ c.type = "create" /\ c.phase = "responded" /\ c.resp.status = 200
    /\ CopiesIn(c, calls') < CopiesIn(c, calls)
    /\ c.id \in DOMAIN operations' /\ operations'[c.id].status = "synced"

\* C7: when the create for provisional id T is confirmed with server id S,
\* the projection holds the server's record under S and nothing under T
C7_ProvisionalReplaced ==
    [][\A c \in InFlight :
          Confirmed(c) => /\ c.resp.body.id \in DOMAIN notes'
                          /\ notes'[c.resp.body.id] = StripId(c.resp.body)
                          /\ c.entityId \notin DOMAIN notes']_vars

\* C7 witness: a create is synced, its server record is in the projection and
\* its provisional id is gone
C7_CreateConfirmed ==
    \E o \in DOMAIN operations :
        /\ operations[o].type = "create" /\ operations[o].status = "synced"
        /\ operations[o].entityId \notin DOMAIN notes
        /\ \E id \in DOMAIN notes \cap DOMAIN remote : remote[id].by = o

\* C10: between manual retries an operation is dispatched at most maxRetries
\* times
C10_DispatchesWithinRetryBudget == \A o \in OpIds : attempts[o] <= maxRetries

\* --------------------------------------------- online, no faults (liveness)
\* the client is online and stays online, nothing is lost and nobody else
\* writes; the periodic timer keeps calling processPendingOperations, started
\* drains run to their end, the Remote Service answers and answers are received
InitLive == Init /\ isOnline

NextLive ==
    \/ CreateOptimistic
    \/ UpdateOptimistic
    \/ DeleteOptimistic
    \/ MoveOptimistic
    \/ DrainTrigger
    \/ DrainLoop
    \/ RemoteHandle
    \/ ReceiveOk
    \/ ReceiveConflict
    \/ ReceiveError

SpecLive ==
    /\ InitLive /\ [][NextLive]_vars
    /\ WF_vars(DrainTrigger) /\ WF_vars(DrainLoop)
    /\ WF_vars(RemoteHandle) /\ WF_vars(ReceiveOk)

\* the Remote Service has refused a call
Rejected ==
    \/ \E c \in InFlight : c.resp.status \in {404, 409}
    \/ \E o \in DOMAIN operations : operations[o].retryCount > 0

Synced(o) == o \in DOMAIN operations /\ operations[o].status = "synced"

\* C8: while the client stays online and the Remote Service accepts every
\* call, every enqueued operation eventually reaches the synced status
C8_EventuallySynced ==
    \A o \in OpIds :
        (o \in DOMAIN operations) ~> (Synced(o) \/ Rejected)

\* C8 witness: an operation that a drain left waiting at the concurrency
\* bound is synced, like every other operation, and nothing was refused
C8_WaitedThenSynced ==
    /\ waited # {}
    /\ opCount = MaxEvents
    /\ \A o \in DOMAIN operations : operations[o].status = "synced"
    /\ ~Rejected

\* ------------------------------------------------ offline edits, then replay
\* every operation is enqueued while offline; the client then reconnects to a
\* Remote Service that nobody else writes to, and the queue is drained
InitReplay == Init /\ ~isOnline

QueuedOffline ==
    /\ ~isOnline
    /\ \/ CreateOptimistic
       \/ UpdateOptimistic
       \/ DeleteOptimistic
       \/ MoveOptimistic

NextReplay ==
    \/ QueuedOffline
    \/ GoOnline
    \/ DrainTrigger
    \/ DrainLoop
    \/ RemoteHandle
    \/ ReceiveOk
    \/ ReceiveConflict
    \/ ReceiveError

SpecReplay == InitReplay /\ [][NextReplay]_vars

\* the same operations issued online one at a time, in creation order: each
\* call is made once the previous one has returned, with the version the
\* client then holds
RECURSIVE SequentialResult(_, _, _)
SequentialResult(r, seq, o) ==
    IF o > opCount \/ o \notin DOMAIN operations THEN r
    ELSE LET op == operations[o]
             current == IF op.entityId \in DOMAIN r THEN r[op.entityId].version ELSE 0
             c == [id |-> o, type |-> op.type, entityId |-> op.entityId,
                   data |-> [op.data EXCEPT !.version = current]]
             out == RemoteCall(r, seq, c)
         IN SequentialResult(out.remote, out.seq, o + 1)

InitialRemote == [x \in InitialIds |-> RemoteRec(InitialTitle, RootFolder, 1, 0)]

\* the entity state of the Remote Service: titles and folders, a created
\* record being identified by the create it answers
EntityState(r) ==
    {<<IF id \in InitialIds THEN id ELSE <<"created", r[id].by>>, r[id].title, r[id].folder>>
        : id \in DOMAIN r}

\* the queue has been drained and every operation was accepted
Drained ==
    /\ isOnline /\ calls = EmptyBag /\ drain = Idle
    /\ \A o \in DOMAIN operations : operations[o].status = "synced"

\* C9: once the operations enqueued offline have all been replayed, the
\* Remote Service holds the entity state that issuing them online one at a
\* time, in creation order, would have produced
C9_ReplayEqualsSequential ==
    Drained => EntityState(remote) = EntityState(SequentialResult(InitialRemote, 0, 1))

\* ------------------------------------------------------ retry timers (backoff)
\* the setTimeout armed by processOperation's catch block fires after
\* retryDelayMs * newRetryCount and calls processPendingOperations
RetryTimer ==
    \E o \in retryTimers :
        /\ retryTimers' = retryTimers \ {o}
        /\ IF isOnline /\ ~isSyncing THEN StartDrain(operations)
                                     ELSE UNCHANGED <<isSyncing, drain>>
        /\ UNCHANGED <<immediate, offlineNotes, resyncVars, lateVars>>
        /\ UNCHANGED <<isOnline, activeSyncCount, storeVars, remoteVars, uiVars, histVars>>

\* the automatic triggers only: no manual retry
NextBackoff ==
    \/ CreateOptimistic
    \/ UpdateOptimistic
    \/ DeleteOptimistic
    \/ MoveOptimistic
    \/ GoOnline
    \/ GoOffline
    \/ DrainTrigger
    \/ DrainLoop
    \/ RemoteHandle
    \/ ForeignWrite
    \/ ReceiveOk
    \/ ReceiveConflict
    \/ ReceiveError
    \/ NetworkError
    \/ RetryTimer

SpecBackoff == Init /\ [][NextBackoff]_vars

\* C11: an operation that failed is not dispatched again while its backoff
\* delay is running, that is before its retry timer has fired
C11_NoDispatchBeforeBackoff ==
    [][\A o \in OpIds : Dispatched(o) => o \notin retryTimers]_vars

\* C12: no Remote Service call is started while the client is offline
C12_NoDispatchOffline ==
    [][\A o \in OpIds : Dispatched(o) => isOnline]_vars

\* ------------------------------------------------------------- cancellation
deleteOperation(ops, id) == [x \in DOMAIN ops \ {id} |-> ops[x]]

\* cancelOperation(operationId): the provisional note of a create is removed
\* from the projection and the offline notes, then the operation is deleted
\* from the operations store
cancelOperation(o) ==
    /\ events < MaxEvents
    /\ events' = events + 1
    /\ notes' = IF operations[o].type = "create"
                THEN removeNote(notes, operations[o].entityId) ELSE notes
    /\ offlineNotes' = IF operations[o].type = "create"
                       THEN deleteNote(offlineNotes, operations[o].entityId) ELSE offlineNotes
    /\ operations' = deleteOperation(operations, o)
    /\ UNCHANGED <<immediate, resyncVars, lateVars>>
    /\ UNCHANGED <<queueVars, opCount, calls, remoteVars, uiVars, attempts, emitted,
                   reached, waited>>

\* the user cancels any stored operation
CancelOperation == \E o \in DOMAIN operations : cancelOperation(o)

NextCancel ==
    \/ Next
    \/ CancelOperation

SpecCancel == Init /\ [][NextCancel]_vars

\* the processOperation invocation c returns in this step
Returns(c) == CopiesIn(c, calls') < CopiesIn(c, calls)

\* C13: when the call of an operation that was cancelled while in flight
\* returns, its result does not change the projection
C13_CancelledResultDiscarded ==
    [][\A c \in InFlight :
          (c.id \notin DOMAIN operations /\ Returns(c)) => notes' = notes]_vars

InitialNotes ==
    [x \in InitialIds |-> [title |-> InitialTitle, folder |-> RootFolder, version |-> 1]]

\* operation o is removed from the operations store in this step
Cancelled(o) == o \in DOMAIN operations /\ o \notin DOMAIN operations'

\* C14: cancelling a pending operation that was never dispatched restores the
\* projection to its state before the operation's optimistic effect (stated
\* for the first operation, whose optimistic effect was applied to the
\* initial projection)
C14_CancelRestoresProjection ==
    [][(/\ opCount = 1 /\ Cancelled(1)
        /\ operations[1].status = "pending"
        /\ 1 \notin reached /\ CallsOf(calls, 1) = 0) => notes' = InitialNotes]_vars

\* --------------------------------- optimistic mutations of the content store
\* addOptimisticOp / updateOptimisticOp / removeOptimisticOp
addOptimisticOp(ops, id, op) ==
    [x \in DOMAIN ops \cup {id} |-> IF x = id THEN op ELSE ops[x]]

updateOptimisticOp(ops, id, status, error) ==
    IF id \in DOMAIN ops
    THEN [ops EXCEPT ![id] = [@ EXCEPT !.status = status, !.error = error]]
    ELSE ops

removeOptimisticOp(ops, id) == [x \in DOMAIN ops \ {id} |-> ops[x]]

\* the closure of an optimistic mutation while it awaits its api call
NewMutation(id, type, entityId, data, currentNote) ==
    [id |-> id, type |-> type, entityId |-> entityId, data |-> data,
     currentNote |-> currentNote, phase |-> "sent", resp |-> NoResponse]

\* the first half of every optimistic mutation: the projection is changed,
\* the optimistic operation is recorded in the store and the api is called
StartMutation(type, entityId, data, currentNote) ==
    /\ events < MaxEvents
    /\ events' = events + 1
    /\ opCount' = opCount + 1
    /\ optimisticOps' = addOptimisticOp(optimisticOps, opCount + 1,
            [type |-> type, entityId |-> entityId, originalData |-> currentNote,
             status |-> "pending", error |-> Undefined])
    /\ mutations' = mutations \cup {NewMutation(opCount + 1, type, entityId, data, currentNote)}
    /\ UNCHANGED <<immediate, offlineNotes, resyncVars, lateVars>>
    /\ UNCHANGED <<queueVars, operations, calls, remoteVars, attempts, emitted, reached, waited>>

createNoteOptimistic ==
    /\ StartMutation("create", TmpIds[opCount + 1],
                     [title |-> EditTitle[opCount + 1], folder |-> RootFolder, version |-> 0],
                     NoData)
    /\ notes' = addNote(notes, TmpIds[opCount + 1],
                        [title |-> EditTitle[opCount + 1], folder |-> RootFolder, version |-> 1])

updateNoteOptimistic ==
    \E id \in DOMAIN notes :
        LET data == [title |-> EditTitle[opCount + 1], folder |-> Undefined,
                     version |-> notes[id].version]
        IN /\ StartMutation("update", id, data, notes[id])
           /\ notes' = updateNote(notes, id, data)

deleteNoteOptimistic ==
    \E id \in DOMAIN notes :
        /\ StartMutation("delete", id, NoData, notes[id])
        /\ notes' = removeNote(notes, id)

moveNoteOptimistic ==
    \E id \in DOMAIN notes :
        LET data == [title |-> Undefined, folder |-> MoveFolder[opCount + 1], version |-> 0]
        IN /\ StartMutation("move", id, data, notes[id])
           /\ notes' = updateNote(notes, id, data)

\* the Remote Service handles the request of an optimistic mutation
ApiHandle ==
    \E c \in mutations :
        /\ c.phase = "sent"
        /\ remoteSeq < Len(ServerIds)
        /\ LET out == RemoteCall(remote, remoteSeq, c)
           IN /\ remote' = out.remote
              /\ remoteSeq' = out.seq
              /\ mutations' = (mutations \ {c})
                                \cup {[c EXCEPT !.phase = "responded", !.resp = out.resp]}
        /\ UNCHANGED <<immediate, offlineNotes, resyncVars, lateVars>>
        /\ UNCHANGED <<queueVars, storeVars, optimisticOps, histVars>>

\* the try branch after the awaited api call
MutationApply(ns, c) ==
    CASE c.type = "create" -> addNote(removeNote(ns, c.entityId), c.resp.body.id, StripId(c.resp.body))
      [] c.type = "update" -> updateNote(ns, c.entityId, StripId(c.resp.body))
      [] c.type = "delete" -> ns
      [] c.type = "move"   -> updateNote(ns, c.entityId, StripId(c.resp.body))

\* the catch branch: the projection is put back from currentNote
MutationRollback(ns, c) ==
    CASE c.type = "create" -> removeNote(ns, c.entityId)
      [] c.type = "update" -> updateNote(ns, c.entityId, c.currentNote)
      [] c.type = "delete" -> addNote(ns, c.entityId, c.currentNote)
      [] c.type = "move"   -> updateNote(ns, c.entityId, c.currentNote)

MutationSucceeds ==
    \E c \in mutations :
        /\ c.phase = "responded" /\ c.resp.status = 200
        /\ notes' = MutationApply(notes, c)
        /\ optimisticOps' = updateOptimisticOp(optimisticOps, c.id, "success", Undefined)
        /\ mutations' = mutations \ {c}
        /\ UNCHANGED <<immediate, offlineNotes, resyncVars, lateVars>>
        /\ UNCHANGED <<queueVars, operations, opCount, calls, remoteVars, histVars>>

MutationCatch(c, message) ==
    /\ notes' = MutationRollback(notes, c)
    /\ optimisticOps' = updateOptimisticOp(optimisticOps, c.id, "error", message)
    /\ mutations' = mutations \ {c}

\* the api call is rejected (ApiError with the response status)
MutationFails ==
    \E c \in mutations :
        /\ c.phase = "responded" /\ c.resp.status \in {404, 409}
        /\ MutationCatch(c, IF c.resp.status = 409 THEN "Conflict" ELSE "Not found")
        /\ UNCHANGED <<immediate, offlineNotes, resyncVars, lateVars>>
        /\ UNCHANGED <<queueVars, operations, opCount, calls, remoteVars, histVars>>

\* the request or its response is lost (ApiError 'Network error')
MutationNetworkError ==
    \E c \in mutations :
        /\ events < MaxEvents
        /\ events' = events + 1
        /\ MutationCatch(c, "Network error")
        /\ UNCHANGED <<immediate, offlineNotes, resyncVars, lateVars>>
        /\ UNCHANGED <<queueVars, operations, opCount, calls, remoteVars,
                       attempts, emitted, reached, waited>>

\* setTimeout(() => removeOptimisticOp(opId)) armed by both branches
RemoveOptimisticOpTimer ==
    \E op \in DOMAIN optimisticOps :
        /\ optimisticOps[op].status # "pending"
        /\ optimisticOps' = removeOptimisticOp(optimisticOps, op)
        /\ UNCHANGED <<immediate, offlineNotes, resyncVars, lateVars>>
        /\ UNCHANGED <<queueVars, storeVars, remoteVars, mutations, histVars>>

NextStore ==
    \/ createNoteOptimistic
    \/ updateNoteOptimistic
    \/ deleteNoteOptimistic
    \/ moveNoteOptimistic
    \/ ApiHandle
    \/ ForeignWrite
    \/ MutationSucceeds
    \/ MutationFails
    \/ MutationNetworkError
    \/ RemoveOptimisticOpTimer

SpecStore == Init /\ [][NextStore]_vars

\* the catch branch of mutation c runs in this step with this error message
Caught(c, message) ==
    /\ c \notin mutations'
    /\ c.id \in DOMAIN optimisticOps'
    /\ optimisticOps'[c.id].status = "error"
    /\ optimisticOps'[c.id].error = message

\* C15: when an optimistic update is rejected with a version conflict, the
\* optimistic value stays in the projection
C15_ConflictKeepsOptimisticValue ==
    [][\A c \in mutations :
          (c.resp.status = 409 /\ Caught(c, "Conflict")) => notes' = notes]_vars

\* the projection holds for the entity of mutation c what the snapshot taken
\* before the mutation held
AtSnapshot(ns, c) ==
    IF c.type = "create" THEN c.entityId \notin DOMAIN ns
    ELSE c.entityId \in DOMAIN ns /\ ns[c.entityId] = c.currentNote

\* C16: when an optimistic mutation fails for a reason other than a version
\* conflict, the projection's entity is put back to the snapshot taken before
\* the mutation
C16_FailureRestoresSnapshot ==
    [][\A c \in mutations :
          (Caught(c, "Not found") \/ Caught(c, "Network error")) => AtSnapshot(notes', c)]_vars

\* C17: every optimistic mutation records a pending operation in the
\* operations store
C17_MutationRecordsOperation ==
    [][opCount' > opCount =>
          \E o \in DOMAIN operations' \ DOMAIN operations : operations'[o].status = "pending"]_vars

\* C18: the version held locally for an id never exceeds what the Remote
\* Service has for that id; a provisional entity, for which the Remote Service
\* has returned nothing, holds no version
C18_LocalVersionWithinRemote ==
    \A id \in DOMAIN notes :
        /\ id \in DOMAIN remote => notes[id].version <= remote[id].version
        /\ id \in Range(TmpIds) => notes[id].version = 0

\* C19: once the queued operations have all been confirmed, the version held
\* locally for an entity is the version of the Remote Service's last accepted
\* write
C19_LocalVersionIsLastAccepted ==
    Drained => \A id \in DOMAIN notes \cap DOMAIN remote : notes[id].version = remote[id].version

\* C20: an optimistic change that failed stays flagged: no timer removes its
\* record
C20_FailedChangeStaysFlagged ==
    [][\A op \in DOMAIN optimisticOps :
          optimisticOps[op].status = "error" => op \in DOMAIN optimisticOps']_vars

\* ------------------------------------------------------ validation errors
\* a client of the queue submits an update the Remote Service finds invalid
UpdateInvalid ==
    \E id \in DOMAIN notes :
        LET data == [title |-> InvalidTitle, folder |-> Undefined, version |-> notes[id].version]
        IN /\ queueOperation("update", id, data)
           /\ notes' = updateNote(notes, id, data)
           /\ UNCHANGED <<offlineNotes, resyncVars, lateVars>>
           /\ UNCHANGED <<queueVars, calls, remoteVars, uiVars, attempts, emitted, reached, waited>>

NextValidation ==
    \/ NextBackoff
    \/ UpdateInvalid

SpecValidation == Init /\ [][NextValidation]_vars

\* C21: an operation the Remote Service rejected with a validation error is
\* failed at once, has used none of its retry budget and is not dispatched
\* again
C21_ValidationNotRetried ==
    [][\A o \in DOMAIN operations :
          operations[o].lastError = "Validation failed"
              => /\ operations[o].status = "failed"
                 /\ operations[o].retryCount = 0
                 /\ ~Dispatched(o)]_vars

\* ------------------------------------------------------ conflict resolution
\* the payloads the resolution dialog can build for a conflicted operation:
\* for every field the local value, the remote value or a merge of the two
MergeTitle == <<"merged", 0>>

MergedData(o) ==
    LET local == operations[o].data
        id == operations[o].entityId
    IN {local} \cup
       (IF id \in DOMAIN remote
        THEN {[local EXCEPT !.title = remote[id].title], [local EXCEPT !.title = MergeTitle]}
        ELSE {})

Conflicted(o) == operations[o].lastError = "Conflict detected"

\* ConflictResolver.handleResolve(operationId, 'accept', mergedData): the
\* merged data is dropped and the operation is retried as it is
ResolveAccept ==
    \E o \in DOMAIN operations :
        \E mergedData \in MergedData(o) :
            /\ Conflicted(o)
            /\ retryOperation(o)

\* ConflictResolver.handleResolve(operationId, 'reject')
ResolveReject ==
    \E o \in DOMAIN operations :
        /\ Conflicted(o)
        /\ cancelOperation(o)

NextResolve ==
    \/ ResolveAccept
    \/ ResolveReject
    \/ Next

SpecResolve == Init /\ [][NextResolve]_vars

\* the value the Remote Service holds for note id, as a note of the projection
RemoteNote(id) == StripId(Body(id, remote[id]))

\* the conflict of operation o is resolved in this step by retrying it
Accepted(o) ==
    /\ Conflicted(o)
    /\ o \in DOMAIN operations'
    /\ operations'[o].status = "pending"
    /\ operations'[o].retryCount = 0

\* C22: the operation re-enqueued by an applied resolution carries the
\* version the Remote Service currently holds for its entity
C22_ResolutionCarriesRemoteVersion ==
    [][\A o \in DOMAIN operations :
          (Accepted(o) /\ operations[o].entityId \in DOMAIN remote)
              => operations'[o].data.version = remote[operations[o].entityId].version]_vars

\* C23: after a conflict is discarded the operation is gone from the log and
\* the projection shows the value the Remote Service holds for the entity
C23_DiscardShowsRemoteValue ==
    [][\A o \in DOMAIN operations :
          (Conflicted(o) /\ Cancelled(o) /\ operations[o].entityId \in DOMAIN remote)
              => /\ operations[o].entityId \in DOMAIN notes'
                 /\ notes'[operations[o].entityId] = RemoteNote(operations[o].entityId)]_vars

\* ------------------------------------------------- full resynchronization
\* offlineStorage.clearSyncedOperations
clearSyncedOperations(ops) ==
    [x \in {o \in DOMAIN ops : ops[o].status # "synced"} |-> ops[x]]

\* another actor deletes a note on the Remote Service
ForeignDelete ==
    \E id \in DOMAIN remote :
        /\ events < MaxEvents
        /\ events' = events + 1
        /\ remote' = [x \in DOMAIN remote \ {id} |-> remote[x]]
        /\ UNCHANGED <<immediate, offlineNotes, resyncVars, lateVars>>
        /\ UNCHANGED <<queueVars, storeVars, remoteSeq, uiVars, attempts, emitted, reached, waited>>

\* fullSync up to the await of the two list calls
FullSyncStart ==
    /\ isOnline
    /\ fullSync.pc = "idle"
    /\ events < MaxEvents
    /\ events' = events + 1
    /\ fullSync' = [NoFullSync EXCEPT !.pc = "listing"]
    /\ UNCHANGED <<lateVars, immediate, offlineNotes, refreshes, folders, remoteFolders, lastMessage, channel>>
    /\ UNCHANGED <<queueVars, storeVars, remoteVars, uiVars, attempts, emitted, reached, waited>>

\* the Remote Service answers api.notes.list() and api.folders.list()
FullSyncList ==
    /\ fullSync.pc = "listing"
    /\ fullSync' = [pc |-> "listed",
                    remoteNotes |-> [id \in DOMAIN remote |-> RemoteNote(id)],
                    remoteFolders |-> remoteFolders]
    /\ UNCHANGED <<lateVars, immediate, offlineNotes, refreshes, folders, remoteFolders, lastMessage, channel>>
    /\ UNCHANGED <<queueVars, storeVars, remoteVars, uiVars, histVars>>

\* a list call fails: the catch block emits 'fullSyncError' and rethrows
FullSyncError ==
    /\ fullSync.pc = "listing"
    /\ events < MaxEvents
    /\ events' = events + 1
    /\ fullSync' = NoFullSync
    /\ UNCHANGED <<lateVars, immediate, offlineNotes, refreshes, folders, remoteFolders, lastMessage, channel>>
    /\ UNCHANGED <<queueVars, storeVars, remoteVars, uiVars, attempts, emitted, reached, waited>>

\* setNotes, setFolders and the awaited saveNotes and saveFolders; the promise
\* of each is settled by the result of a put, so it never settles for an
\* empty list
FullSyncStore ==
    /\ fullSync.pc = "listed"
    /\ notes' = setNotes(notes, fullSync.remoteNotes)
    /\ folders' = setFolders(folders, fullSync.remoteFolders)
    /\ offlineNotes' = saveNotes(offlineNotes, fullSync.remoteNotes)
    /\ fullSync' = [fullSync EXCEPT !.pc = IF \/ DOMAIN fullSync.remoteNotes = {}
                                              \/ fullSync.remoteFolders = {}
                                           THEN "hung" ELSE "saved"]
    /\ UNCHANGED <<lateVars, immediate, refreshes, remoteFolders, lastMessage, channel>>
    /\ UNCHANGED <<queueVars, operations, opCount, calls, remoteVars, uiVars, histVars>>

\* await this.processPendingOperations(): it returns at once when its guard
\* fails
FullSyncDrain ==
    /\ fullSync.pc = "saved"
    /\ IF isOnline /\ ~isSyncing
       THEN /\ StartDrain(operations)
            /\ fullSync' = [fullSync EXCEPT !.pc = "draining"]
       ELSE /\ fullSync' = [fullSync EXCEPT !.pc = "clearing"]
            /\ UNCHANGED <<isSyncing, drain>>
    /\ UNCHANGED <<lateVars, immediate, offlineNotes, refreshes, folders, remoteFolders, lastMessage, channel>>
    /\ UNCHANGED <<isOnline, activeSyncCount, retryTimers, storeVars, remoteVars, uiVars, histVars>>

\* once the awaited drain has returned: clearSyncedOperations, and fullSync
\* completes
FullSyncClear ==
    /\ \/ fullSync.pc = "clearing"
       \/ fullSync.pc = "draining" /\ drain.pc = "idle"
    /\ operations' = clearSyncedOperations(operations)
    /\ fullSync' = NoFullSync
    /\ UNCHANGED <<lateVars, immediate, offlineNotes, refreshes, folders, remoteFolders, lastMessage, channel>>
    /\ UNCHANGED <<queueVars, opCount, calls, notes, remoteVars, uiVars, histVars>>

NextResync ==
    \/ CreateOptimistic
    \/ UpdateOptimistic
    \/ DeleteOptimistic
    \/ MoveOptimistic
    \/ GoOnline
    \/ DrainTrigger
    \/ DrainLoop
    \/ RemoteHandle
    \/ ForeignWrite
    \/ ForeignDelete
    \/ ReceiveOk
    \/ ReceiveConflict
    \/ ReceiveError
    \/ FullSyncStart
    \/ FullSyncList
    \/ FullSyncError
    \/ FullSyncStore
    \/ FullSyncDrain
    \/ FullSyncClear

SpecResync == Init /\ [][NextResync]_vars

\* fullSync completes in this step
FullSyncCompletes == fullSync.pc \in {"draining", "clearing"} /\ fullSync'.pc = "idle"

\* fullSync writes the fetched list to the projection and the offline store
\* in this step, and saveNotes settles
FullSyncStores == fullSync.pc = "listed" /\ fullSync'.pc = "saved"

\* C24: when a full resynchronization completes, the provisional entity of
\* every create that is not yet confirmed is in the projection, and no
\* confirmed operation is left in the log
C24_ResyncKeepsPendingEffects ==
    [][FullSyncCompletes =>
          \A o \in DOMAIN operations' :
              /\ operations'[o].status # "synced"
              /\ (operations'[o].type = "create"
                    /\ operations'[o].status \in {"pending", "syncing"})
                      => operations'[o].entityId \in DOMAIN notes']_vars

\* C25: the full resynchronization leaves in the offline notes store exactly
\* the notes the Remote Service listed
C25_ResyncReplacesStore ==
    [][FullSyncStores => offlineNotes' = fullSync.remoteNotes]_vars

\* ------------------------------------------------------ push notifications
\* NoteUpdateMessage / FolderUpdateMessage (a folder message has no version)
Message(entity, operation, id, version, user_id) ==
    [entity |-> entity, operation |-> operation, id |-> id, version |-> version,
     user_id |-> user_id]

\* another actor creates, updates, moves or deletes a note on the Remote
\* Service, or deletes a folder; the Push Channel publishes the change
ForeignWrites ==
    /\ events < MaxEvents
    /\ events' = events + 1
    /\ UNCHANGED <<lateVars, immediate, offlineNotes, fullSync, refreshes, folders, lastMessage>>
    /\ UNCHANGED <<queueVars, storeVars, uiVars, attempts, emitted, reached, waited>>

ForeignCreate ==
    /\ remoteSeq < Len(ServerIds)
    /\ ForeignWrites
    /\ LET out == RemoteCreate(remote, remoteSeq,
                               [title |-> ForeignTitle, folder |-> RootFolder, version |-> 0], 0)
       IN /\ remote' = out.remote
          /\ remoteSeq' = out.seq
          /\ channel' = channel \cup {Message("note", "create", out.resp.body.id, 1, OtherUser)}
    /\ UNCHANGED remoteFolders

ForeignUpdate ==
    \E id \in DOMAIN remote :
        /\ ForeignWrites
        /\ remote' = [remote EXCEPT ![id] = RemoteRec(ForeignTitle, @.folder, @.version + 1, @.by)]
        /\ channel' = channel \cup {Message("note", "update", id, remote[id].version + 1, OtherUser)}
        /\ UNCHANGED <<remoteSeq, remoteFolders>>

ForeignMove ==
    \E id \in DOMAIN remote :
        /\ ForeignWrites
        /\ remote' = [remote EXCEPT ![id] = RemoteRec(@.title, ForeignFolder, @.version + 1, @.by)]
        /\ channel' = channel \cup {Message("note", "move", id, remote[id].version + 1, OtherUser)}
        /\ UNCHANGED <<remoteSeq, remoteFolders>>

ForeignDeleteNote ==
    \E id \in DOMAIN remote :
        /\ ForeignWrites
        /\ remote' = [x \in DOMAIN remote \ {id} |-> remote[x]]
        /\ channel' = channel \cup {Message("note", "delete", id, remote[id].version, OtherUser)}
        /\ UNCHANGED <<remoteSeq, remoteFolders>>

ForeignFolderDelete ==
    \E f \in remoteFolders :
        /\ ForeignWrites
        /\ remoteFolders' = remoteFolders \ {f}
        /\ channel' = channel \cup {Message("folder", "delete", f, 0, OtherUser)}
        /\ UNCHANGED remoteVars

\* the notifications the Push Channel holds for the local actor's own writes:
\* a note mutation the Remote Service has accepted and whose response the
\* client has not processed yet, and writes of the stored folder
LocalEcho ==
    {Message("note", c.type,
             IF c.type = "create" THEN c.resp.body.id ELSE c.entityId,
             IF c.type = "delete" THEN c.currentNote.version ELSE c.resp.body.version,
             LocalUser)
        : c \in {x \in mutations : x.phase = "responded" /\ x.resp.status = 200}}
    \cup {Message("folder", operation, f, 0, LocalUser)
            : operation \in {"create", "update", "delete", "move"},
              f \in InitialFolders}

\* syncNotes / syncFolders up to the await of the list call
NewRefresh(kind, data) ==
    [kind |-> kind, pc |-> "sent", cause |-> data, notes |-> << >>, folders |-> {}]

\* a variant of the note handler without the check of the originating actor
handleNoteUpdateNoActorCheck(data) ==
    CASE data.operation = "create" ->
            /\ refreshes' = refreshes \cup {NewRefresh("notes", data)}
            /\ UNCHANGED notes
      [] data.operation = "update" ->
            /\ refreshes' = IF data.id \in DOMAIN notes /\ notes[data.id].version < data.version
                            THEN refreshes \cup {NewRefresh("notes", data)} ELSE refreshes
            /\ UNCHANGED notes
      [] data.operation = "delete" ->
            /\ notes' = removeNote(notes, data.id)
            /\ UNCHANGED refreshes
      [] data.operation = "move" ->
            /\ refreshes' = refreshes \cup {NewRefresh("notes", data)}
            /\ UNCHANGED notes

\* WebSocketService.handleNoteUpdate
handleNoteUpdate(data) ==
    IF data.user_id = LocalUser THEN UNCHANGED <<notes, refreshes>>
    ELSE CASE data.operation = "create" ->
                /\ refreshes' = refreshes \cup {NewRefresh("notes", data)}
                /\ UNCHANGED notes
           [] data.operation = "update" ->
                /\ refreshes' = IF data.id \in DOMAIN notes /\ notes[data.id].version < data.version
                                THEN refreshes \cup {NewRefresh("notes", data)} ELSE refreshes
                /\ UNCHANGED notes
           [] data.operation = "delete" ->
                /\ notes' = removeNote(notes, data.id)
                /\ UNCHANGED refreshes
           [] data.operation = "move" ->
                /\ refreshes' = refreshes \cup {NewRefresh("notes", data)}
                /\ UNCHANGED notes

\* WebSocketService.handleFolderUpdate: every kind calls syncFolders
handleFolderUpdate(data) ==
    /\ refreshes' = IF data.user_id = LocalUser THEN refreshes
                    ELSE refreshes \cup {NewRefresh("folders", data)}
    /\ UNCHANGED notes

\* WebSocketService.handleMessage for 'note_update' and 'folder_update': the
\* Push Channel may deliver a notification late and more than once
Deliver ==
    \E data \in channel \cup LocalEcho :
        /\ lastMessage.count < MaxDeliveries
        /\ lastMessage' = [message |-> data, count |-> lastMessage.count + 1]
        /\ IF data.entity = "note" THEN handleNoteUpdate(data) ELSE handleFolderUpdate(data)
        /\ UNCHANGED <<lateVars, immediate, offlineNotes, fullSync, folders, remoteFolders, channel>>
        /\ UNCHANGED <<queueVars, operations, opCount, calls, remoteVars, uiVars, histVars>>

\* the Remote Service answers the list call of a refresh
RefreshList ==
    \E r \in refreshes :
        /\ r.pc = "sent"
        /\ refreshes' = (refreshes \ {r}) \cup
                {IF r.kind = "notes"
                 THEN [r EXCEPT !.pc = "listed", !.notes = [id \in DOMAIN remote |-> RemoteNote(id)]]
                 ELSE [r EXCEPT !.pc = "listed", !.folders = remoteFolders]}
        /\ UNCHANGED <<lateVars, immediate, offlineNotes, fullSync, folders, remoteFolders, lastMessage, channel>>
        /\ UNCHANGED <<queueVars, storeVars, remoteVars, uiVars, histVars>>

\* syncNotes / syncFolders after the awaited list call: setNotes / setFolders
RefreshApply ==
    \E r \in refreshes :
        /\ r.pc = "listed"
        /\ refreshes' = refreshes \ {r}
        /\ IF r.kind = "notes"
           THEN notes' = setNotes(notes, r.notes) /\ UNCHANGED folders
           ELSE folders' = setFolders(folders, r.folders) /\ UNCHANGED notes
        /\ UNCHANGED <<lateVars, immediate, offlineNotes, fullSync, remoteFolders, lastMessage, channel>>
        /\ UNCHANGED <<queueVars, operations, opCount, calls, remoteVars, uiVars, histVars>>

\* the list call fails: the catch block of syncNotes / syncFolders
RefreshFails ==
    \E r \in refreshes :
        /\ r.pc = "sent"
        /\ events < MaxEvents
        /\ events' = events + 1
        /\ refreshes' = refreshes \ {r}
        /\ UNCHANGED <<lateVars, immediate, offlineNotes, fullSync, folders, remoteFolders, lastMessage, channel>>
        /\ UNCHANGED <<queueVars, storeVars, remoteVars, uiVars, attempts, emitted, reached, waited>>

NextPush ==
    \/ createNoteOptimistic
    \/ updateNoteOptimistic
    \/ deleteNoteOptimistic
    \/ moveNoteOptimistic
    \/ ApiHandle
    \/ MutationSucceeds
    \/ MutationFails
    \/ ForeignCreate
    \/ ForeignUpdate
    \/ ForeignMove
    \/ ForeignDeleteNote
    \/ ForeignFolderDelete
    \/ Deliver
    \/ RefreshList
    \/ RefreshApply
    \/ RefreshFails

SpecPush == Init /\ [][NextPush]_vars

\* a notification is handled in this step
Delivered == lastMessage'.count > lastMessage.count

\* a refresh of the notes, started by a notification about a note with an
\* optimistic mutation still awaiting its api call, is applied in this step
ClobberingRefresh(r, c) ==
    /\ r.kind = "notes" /\ r.pc = "listed" /\ r \notin refreshes'
    /\ r.cause.operation \in {"update", "move"}
    /\ r.cause.id = c.entityId
    /\ c \in mutations'

\* C26: a refresh started by an update or move notification leaves an entity
\* alone while a local operation on it is still outstanding
C26_RefreshDeferredWhilePending ==
    [][\A r \in refreshes : \A c \in mutations :
          (ClobberingRefresh(r, c) /\ c.entityId \in DOMAIN notes)
              => /\ c.entityId \in DOMAIN notes'
                 /\ notes'[c.entityId] = notes[c.entityId]]_vars

\* C27: an update or move notification from another actor whose version is
\* not greater than the local version of the note starts no refresh and
\* changes nothing in the projection
C27_StaleNotificationIgnored ==
    [][LET data == lastMessage'.message
       IN (/\ Delivered
           /\ data.entity = "note" /\ data.user_id # LocalUser
           /\ data.operation \in {"update", "move"}
           /\ data.id \in DOMAIN notes /\ data.version <= notes[data.id].version)
              => (refreshes' = refreshes /\ notes' = notes)]_vars

C29_DeleteNotificationRemoves ==
    [][LET data == lastMessage'.message
       IN (Delivered /\ data.user_id # LocalUser /\ data.operation = "delete")
              => IF data.entity = "note" THEN data.id \notin DOMAIN notes'
                                         ELSE data.id \notin folders']_vars

\* ------------------------------------------------- dispatch after enqueue
\* the setImmediate callback of queueOperation: processPendingOperations,
\* which returns at once while another drain is running
ImmediateDrain ==
    /\ immediate
    /\ immediate' = FALSE
    /\ IF isOnline /\ ~isSyncing THEN StartDrain(operations)
                                 ELSE UNCHANGED <<isSyncing, drain>>
    /\ UNCHANGED <<offlineNotes, resyncVars, lateVars>>
    /\ UNCHANGED <<isOnline, activeSyncCount, retryTimers, storeVars, remoteVars, uiVars, histVars>>

\* an operation is enqueued while the client is online and fewer than
\* maxConcurrentSync operations are in flight
QueuedOnline ==
    /\ isOnline /\ activeSyncCount < maxConcurrentSync
    /\ \/ CreateOptimistic
       \/ UpdateOptimistic
       \/ DeleteOptimistic
       \/ MoveOptimistic

\* the client stays online; no periodic timer, no retry timer and no other
\* trigger calls processPendingOperations
NextEnqueue ==
    \/ QueuedOnline
    \/ ImmediateDrain
    \/ DrainLoop
    \/ RemoteHandle
    \/ ReceiveOk
    \/ ReceiveConflict
    \/ ReceiveError

SpecEnqueue == InitLive /\ [][NextEnqueue]_vars

\* no call of processPendingOperations is scheduled or running
Quiet == ~immediate /\ ~isSyncing

\* C30: an operation enqueued online below the concurrency bound is
\* dispatched by a drain that its own enqueue brings about: with no more than
\* maxConcurrentSync operations enqueued, once no drain is scheduled or
\* running every operation has been dispatched
C30_EnqueuedIsDispatched ==
    (Quiet /\ opCount <= maxConcurrentSync)
        => \A o \in DOMAIN operations : attempts[o] > 0

\* ------------------------------------------------ one call per operation
\* C31: an operation never has two processOperation invocations outstanding
\* at once
C31_OneCallPerOperation == \A o \in OpIds : CallsOf(calls, o) <= 1

\* ------------------------------------------------------- provisional ids
\* the Remote Service handles the request of call c in this step
Submitted(c) ==
    /\ c.phase = "sent"
    /\ CopiesIn(c, calls') < CopiesIn(c, calls)
    /\ BagCardinality(calls') = BagCardinality(calls)

\* the create that introduced provisional id t has been confirmed
CreateSynced(t) ==
    \E o \in DOMAIN operations :
        /\ operations[o].type = "create" /\ operations[o].entityId = t
        /\ operations[o].status = "synced"

\* C32: once the create of a provisional id has been confirmed, no update,
\* delete or move is submitted to the Remote Service under that provisional id
C32_SubmittedUnderServerId ==
    [][\A c \in InFlight :
          (Submitted(c) /\ c.type # "create" /\ CreateSynced(c.entityId))
              => c.entityId \notin Range(TmpIds)]_vars

\* ------------------------------------------------------------------ restart
\* the page is closed and loaded again: the service and the content store
\* start from their initial in-memory state; the offline stores are kept, and
\* calls that were outstanding never return
Restart ==
    /\ events < MaxEvents
    /\ events' = events + 1
    /\ isSyncing' = FALSE
    /\ activeSyncCount' = 0
    /\ drain' = Idle
    /\ retryTimers' = {}
    /\ immediate' = FALSE
    /\ calls' = EmptyBag
    /\ notes' = << >>
    /\ folders' = {}
    /\ optimisticOps' = << >>
    /\ mutations' = {}
    /\ fullSync' = NoFullSync
    /\ refreshes' = {}
    /\ UNCHANGED <<isOnline, operations, opCount, offlineNotes, remoteVars, remoteFolders,
                   channel, lastMessage, attempts, emitted, reached, waited, lateVars>>

\* the client stays online and nothing is lost on the network, but the page
\* may be reloaded; the periodic timer keeps calling processPendingOperations
NextRestart ==
    \/ CreateOptimistic
    \/ UpdateOptimistic
    \/ DeleteOptimistic
    \/ MoveOptimistic
    \/ DrainTrigger
    \/ DrainLoop
    \/ RemoteHandle
    \/ ReceiveOk
    \/ ReceiveConflict
    \/ ReceiveError
    \/ Restart

SpecRestart ==
    /\ InitLive /\ [][NextRestart]_vars
    /\ WF_vars(DrainTrigger) /\ WF_vars(DrainLoop) /\ WF_vars(RemoteHandle)
    /\ WF_vars(ReceiveOk) /\ WF_vars(ReceiveConflict) /\ WF_vars(ReceiveError)

Syncing(o) == o \in DOMAIN operations /\ operations[o].status = "syncing"

Terminal(o) == o \in DOMAIN operations /\ operations[o].status \in {"synced", "failed"}

\* C33: an operation in status 'syncing', also one that was in flight when
\* the page was reloaded, eventually reaches a terminal status
C33_SyncingEventuallyTerminal ==
    \A o \in OpIds : Syncing(o) ~> Terminal(o)

\* ------------------------------------------- overlapping optimistic mutations
\* the content store alone: nobody else writes and no request is lost
NextOverlap ==
    \/ createNoteOptimistic
    \/ updateNoteOptimistic
    \/ deleteNoteOptimistic
    \/ moveNoteOptimistic
    \/ ApiHandle
    \/ MutationSucceeds
    \/ MutationFails
    \/ RemoveOptimisticOpTimer

SpecOverlap == Init /\ [][NextOverlap]_vars

\* every optimistic mutation has settled
Settled == mutations = {}

\* C34: once every optimistic mutation has settled, each note of the
\* projection that the Remote Service holds equals the Remote Service's record
C34_SettledEqualsRemote ==
    Settled => \A id \in DOMAIN notes \cap DOMAIN remote : notes[id] = RemoteNote(id)

\* ------------------------------------------------- termination of fullSync
\* full resynchronizations of an account in which other actors delete notes
\* and folders; every step of fullSync that can run does run, and so does
\* the drain it awaits
NextFullSync ==
    \/ CreateOptimistic
    \/ GoOnline
    \/ DrainLoop
    \/ RemoteHandle
    \/ ReceiveOk
    \/ ForeignDelete
    \/ ForeignFolderDelete
    \/ FullSyncStart
    \/ FullSyncList
    \/ FullSyncError
    \/ FullSyncStore
    \/ FullSyncDrain
    \/ FullSyncClear

SpecFullSync ==
    /\ Init /\ [][NextFullSync]_vars
    /\ WF_vars(DrainLoop) /\ WF_vars(FullSyncStore)
    /\ WF_vars(FullSyncDrain) /\ WF_vars(FullSyncClear)

\* C35: once the list calls of fullSync have returned, fullSync ends
C35_FullSyncTerminates ==
    (fullSync.pc = "listed") ~> (fullSync.pc = "idle")

\* ------------------------------------------- conflicts of failed operations
\* the characters of the error messages stored as lastError
Text(message) ==
    CASE message = "Conflict detected" ->
            <<"C", "o", "n", "f", "l", "i", "c", "t", " ",
              "d", "e", "t", "e", "c", "t", "e", "d">>
      [] message = "Network error" ->
            <<"N", "e", "t", "w", "o", "r", "k", " ", "e", "r", "r", "o", "r">>
      [] message = "Validation failed" ->
            <<"V", "a", "l", "i", "d", "a", "t", "i", "o", "n", " ",
              "f", "a", "i", "l", "e", "d">>
      [] message = "Not found" ->
            <<"N", "o", "t", " ", "f", "o", "u", "n", "d">>
      [] OTHER -> << >>   \* lastError is undefined: nothing to search in

\* String.prototype.includes: searchString occurs in str, compared by
\* character and so by case
includes(str, searchString) ==
    \E i \in 0..(Len(str) - Len(searchString)) :
        SubSeq(str, i + 1, i + Len(searchString)) = searchString

\* the filter of resolvePendingConflicts: op.lastError?.includes('conflict')
conflictOps(ops) ==
    {o \in DOMAIN ops :
        /\ ops[o].status = "failed"
        /\ includes(Text(ops[o].lastError), <<"c", "o", "n", "f", "l", "i", "c", "t">>)}

\* resolvePendingConflicts(): a 'conflict' event is emitted for each failed
\* operation that passes the filter
resolvePendingConflicts ==
    /\ reemitted' = [conflicts |-> {o \in DOMAIN operations :
                                        operations[o].status = "failed" /\ Conflicted(o)},
                     ops |-> conflictOps(operations)]
    /\ UNCHANGED <<queueVars, storeVars, remoteVars, uiVars, histVars, immediate, offlineNotes,
                   resyncVars, socketVars, requestVars>>

\* the automatic triggers, and conflicts of failed operations are asked for
NextConflicts ==
    \/ UpdateOptimistic
    \/ MoveOptimistic
    \/ DrainTrigger
    \/ DrainLoop
    \/ RemoteHandle
    \/ ForeignWrite
    \/ ReceiveOk
    \/ ReceiveConflict
    \/ RetryTimer
    \/ resolvePendingConflicts

SpecConflicts == InitLive /\ [][NextConflicts]_vars

\* C37: resolvePendingConflicts emits a conflict for every failed operation
\* whose last failure was a version conflict
C37_FailedConflictsReemitted == reemitted.conflicts \subseteq reemitted.ops

\* ---------------------------------------------------------- retry counts
\* C39: retryCount never exceeds maxRetries, an operation is 'failed' only
\* with retryCount at least maxRetries, and retryCount decreases only in a
\* manual retry of the operation
C39_RetryCountBounded ==
    [][\A o \in DOMAIN operations \cap DOMAIN operations' :
          /\ operations'[o].retryCount <= maxRetries
          /\ operations'[o].status = "failed" => operations'[o].retryCount >= maxRetries
          /\ operations'[o].retryCount < operations[o].retryCount => retryOperation(o)]_vars

\* ------------------------------------------------ push channel connection
\* connect(): nothing when connected or connecting; otherwise isConnecting is
\* set, and a socket is opened when the auth store holds an access token
connect ==
    IF isConnected \/ isConnecting
    THEN UNCHANGED <<ws, isConnected, isConnecting>>
    ELSE /\ isConnecting' = TRUE
         /\ ws' = IF accessToken THEN "connecting" ELSE ws
         /\ UNCHANGED isConnected

\* ws.onclose: the flags are cleared, and a reconnection timeout is set when
\* shouldReconnect holds and attempts are left
onclose ==
    /\ ws' = "closed"
    /\ isConnected' = FALSE
    /\ isConnecting' = FALSE
    /\ reconnectTimers' = IF shouldReconnect /\ reconnectAttempts < maxReconnectAttempts
                          THEN reconnectTimers + 1 ELSE reconnectTimers
    /\ UNCHANGED <<shouldReconnect, reconnectAttempts, accessToken>>

SocketFrame ==
    UNCHANGED <<queueVars, storeVars, remoteVars, uiVars, histVars, immediate, offlineNotes,
                resyncVars, reemitted, requestVars>>

\* the application calls connect(): after a login, on the 'online' event, or
\* through the useWebSocket hook
Connect ==
    /\ connect
    /\ UNCHANGED <<shouldReconnect, reconnectAttempts, reconnectTimers, accessToken>>
    /\ SocketFrame

\* ws.onopen
Open ==
    /\ ws = "connecting"
    /\ ws' = "open"
    /\ isConnected' = TRUE
    /\ isConnecting' = FALSE
    /\ reconnectAttempts' = 0
    /\ UNCHANGED <<shouldReconnect, reconnectTimers, accessToken>>
    /\ SocketFrame

\* the connection cannot be established, or an open connection is lost
ConnectionLost ==
    /\ ws \in {"connecting", "open"}
    /\ reconnectTimers < MaxTimers
    /\ onclose
    /\ SocketFrame

\* the connection timer closes a socket that is still connecting
ConnectionTimeout ==
    /\ ws = "connecting"
    /\ reconnectTimers < MaxTimers
    /\ ws' = "closing"
    /\ UNCHANGED <<isConnected, isConnecting, shouldReconnect, reconnectAttempts,
                   reconnectTimers, accessToken>>
    /\ SocketFrame

\* a socket closed by the client reports its close
Closed ==
    /\ ws = "closing"
    /\ onclose
    /\ SocketFrame

\* the timeout set by onclose fires
ReconnectTimer ==
    /\ reconnectTimers > 0
    /\ reconnectTimers' = reconnectTimers - 1
    /\ reconnectAttempts' = reconnectAttempts + 1
    /\ connect
    /\ UNCHANGED <<shouldReconnect, accessToken>>
    /\ SocketFrame

\* disconnect(): shouldReconnect is cleared and the socket, if any, closed
disconnect ==
    /\ shouldReconnect' = FALSE
    /\ ws' = IF ws \in {"connecting", "open"} THEN "closing" ELSE ws
    /\ UNCHANGED <<isConnected, isConnecting, reconnectAttempts, reconnectTimers>>

\* the 'offline' and 'beforeunload' listeners
Disconnect ==
    /\ disconnect
    /\ UNCHANGED accessToken
    /\ SocketFrame

\* a login stores an access token
Login ==
    /\ ~accessToken
    /\ accessToken' = TRUE
    /\ UNCHANGED <<ws, isConnected, isConnecting, shouldReconnect, reconnectAttempts,
                   reconnectTimers>>
    /\ SocketFrame

\* a logout clears the token, and the auth store's subscriber disconnects
Logout ==
    /\ accessToken
    /\ accessToken' = FALSE
    /\ disconnect
    /\ SocketFrame

InitSocket == InitBase /\ accessToken \in BOOLEAN /\ refreshToken = FALSE

NextSocket ==
    \/ Connect
    \/ Open
    \/ ConnectionLost
    \/ ConnectionTimeout
    \/ Closed
    \/ ReconnectTimer
    \/ Disconnect
    \/ Login
    \/ Logout

SpecSocket == InitSocket /\ [][NextSocket]_vars

\* C36: an open connection that is lost while attempts are left sets a
\* reconnection timeout, also after an earlier disconnect()
C36_LostConnectionReconnects ==
    [][(ws = "open" /\ ws' = "closed" /\ reconnectAttempts < maxReconnectAttempts)
          => reconnectTimers' = reconnectTimers + 1]_vars

\* C38: a connect() that finds no access token leaves the service
\* disconnected: neither connected nor connecting
C38_FailedConnectLeavesDisconnected ==
    [][(Connect /\ ~isConnected /\ ~isConnecting /\ ~accessToken)
          => (~isConnected' /\ ~isConnecting')]_vars

\* ------------------------------------------------------ api client request
\* what a fetch of the api client can bring: a response with a status, or a
\* rejection (status 0, the ApiError 'Network error')
Statuses == {200, 401, 500, 0}

\* a call of request returns or throws: its frame is popped, and the result
\* goes to the caller, or to the application when there is no caller
Return(result) ==
    /\ stack' = SubSeq(stack, 1, Len(stack) - 1)
    /\ returned' = IF Len(stack) = 1 THEN "none" ELSE result
    /\ outcome' = IF Len(stack) = 1 THEN result ELSE outcome

RequestFrame ==
    UNCHANGED <<queueVars, storeVars, remoteVars, uiVars, histVars, immediate, offlineNotes,
                resyncVars, reemitted, socketVars>>

\* the application calls an endpoint through request
Request ==
    /\ stack = << >>
    /\ stack' = <<"fetch">>
    /\ tokenRefreshes' = 0
    /\ UNCHANGED <<returned, refreshToken, outcome>>
    /\ RequestFrame

\* the first fetch of the innermost call ends: an ok response is returned, a
\* 401 with a refresh token at hand calls refreshAccessToken, which calls
\* request for /auth/refresh, and anything else is thrown
Respond ==
    \E status \in Statuses :
        /\ stack # << >>
        /\ stack[Len(stack)] = "fetch"
        /\ IF status = 200
           THEN Return("ok") /\ UNCHANGED <<refreshToken, tokenRefreshes>>
           ELSE IF status = 401 /\ refreshToken
           THEN /\ Len(stack) < MaxDepth
                /\ stack' = [stack EXCEPT ![Len(stack)] = "refreshing"] \o <<"fetch">>
                /\ tokenRefreshes' = tokenRefreshes + 1
                /\ UNCHANGED <<returned, refreshToken, outcome>>
           ELSE /\ Return(CASE status = 0 -> "Network error"
                            [] status = 401 -> "HTTP 401"
                            [] OTHER -> "HTTP 500")
                /\ UNCHANGED <<refreshToken, tokenRefreshes>>
        /\ RequestFrame

\* refreshAccessToken comes back to the call that awaits it: with the new
\* tokens stored the original fetch is retried, and when it threw the tokens
\* are cleared and 'Authentication failed' is thrown
Refreshed ==
    /\ stack # << >>
    /\ stack[Len(stack)] = "refreshing"
    /\ returned # "none"
    /\ IF returned = "ok"
       THEN /\ stack' = [stack EXCEPT ![Len(stack)] = "retry"]
            /\ refreshToken' = TRUE
            /\ returned' = "none"
            /\ UNCHANGED outcome
       ELSE /\ refreshToken' = FALSE
            /\ Return("Authentication failed")
    /\ UNCHANGED tokenRefreshes
    /\ RequestFrame

\* the retried fetch ends: an ok response is returned, another response is
\* thrown as the error of the first one (a 401), and a rejection is caught as
\* a failed refresh
RetryRespond ==
    \E status \in Statuses :
        /\ stack # << >>
        /\ stack[Len(stack)] = "retry"
        /\ IF status = 200
           THEN Return("ok") /\ UNCHANGED refreshToken
           ELSE IF status = 0
           THEN refreshToken' = FALSE /\ Return("Authentication failed")
           ELSE Return("HTTP 401") /\ UNCHANGED refreshToken
        /\ UNCHANGED tokenRefreshes
        /\ RequestFrame

\* setAuth: a login hands its tokens to the client
SetAuth ==
    /\ stack = << >>
    /\ ~refreshToken
    /\ refreshToken' = TRUE
    /\ UNCHANGED <<stack, returned, tokenRefreshes, outcome>>
    /\ RequestFrame

InitRequest == InitBase /\ accessToken = FALSE /\ refreshToken \in BOOLEAN

NextRequest ==
    \/ Request
    \/ Respond
    \/ Refreshed
    \/ RetryRespond
    \/ SetAuth

SpecRequest == InitRequest /\ [][NextRequest]_vars

\* C40: one request of the application refreshes the token at most once
C40_OneRefreshPerRequest == tokenRefreshes <= 1

====
